---- MODULE Spec2Model ----
(***************************************************************************)
(* FoliateViewer (apps/readest-app/src/app/reader/components/              *)
(* FoliateViewer.tsx): the React component that mounts the foliate-view    *)
(* widget for one book key, applies the view settings to it and bridges    *)
(* its events to the reader stores.                                        *)
(*                                                                         *)
(* The component instance modelled is the viewer of book key "A".          *)
(* JavaScript is single threaded: every action below is one task of the    *)
(* event loop (a render, a flush of passive effects, the continuation of   *)
(* an await, one event handler, one store update by another component).    *)
(***************************************************************************)
EXTENDS Integers, Sequences, FiniteSets, TLC

\* ------------------------------------------------------------------ bounds
MaxChanges == 2        \* store / prop changes made by the environment
MaxMountTriggers == 1  \* extra runs of the mount effect (StrictMode, HMR)
MaxInflight == 1       \* intercepted payloads whose chain has not settled
MaxRelocates == 2      \* Relocate events kept in the history

\* ------------------------------------------------------------ input domains
Self == "A"
Keys == {"A", "B", "C"}
WritingModes == {"auto", "horizontal-tb", "horizontal-rl", "vertical-rl"}
Languages == {"en", "ar", "zh"}
Dirs == {"ltr", "rtl", "auto"}
PaddingTops == {0, 8}
ThemeCodes == {"default", "sepia"}

\* the values another component may store into one settings field
FieldValues ==
  [ showHeader |-> BOOLEAN, showFooter |-> BOOLEAN,
    marginPx |-> {44, 60}, compactMarginPx |-> {16, 20},
    gapPercent |-> {5, 7}, compactGapPercent |-> {3, 4},
    scrolled |-> BOOLEAN, defaultFontSize |-> {16, 18} ]

DefaultSettings ==
  [ writingMode |-> "auto", vertical |-> FALSE, rtl |-> FALSE,
    showHeader |-> TRUE, showFooter |-> TRUE,
    marginPx |-> 44, compactMarginPx |-> 16,
    gapPercent |-> 5, compactGapPercent |-> 3,
    scrolled |-> FALSE, animated |-> FALSE,
    maxColumnCount |-> 2, maxInlineSize |-> 720, maxBlockSize |-> 1440,
    screenOrientation |-> "auto", defaultFontSize |-> 16,
    allowScript |-> << >>, codeHighlighting |-> FALSE ]

VARIABLES
  \* --- refs and the openBook routine
  isViewCreated,   \* useRef(false), line 53
  viewRef,         \* viewRef.current # null, line 51
  pc,              \* where openBook is suspended
  openStarts,      \* number of calls of openBook
  created,         \* number of foliate-view elements constructed
  openPadding,     \* padding.top of the render whose mount effect ran openBook
  capSettings,     \* const viewSettings of openBook, line 188
  capIsStore,      \* that object is still the one the store holds
  \* --- the widget
  viewState,       \* "none" | "opening" | "opened" | "failed"
  bookDir,         \* bookDoc.dir
  openedDir,       \* bookDoc.dir as view.open received it
  attrs,           \* attributes of view.renderer and the styles last set
  calls,           \* renderer calls made by the most recent task
  navCalls,        \* view.init / view.goToFraction calls
  \* --- stores and props
  settings,        \* readerStore view settings of book key A
  views,           \* readerStore view registry
  padding,         \* props.padding.top
  themeCode, isDarkMode,
  \* --- React
  rPadding, rSettings, rTheme,   \* what the last committed render saw
  rView,           \* viewRef.current as the last committed render saw it
  pend,            \* passive effects scheduled by the last commit
  ran,             \* effects run by the most recent task
  \* --- environment
  language, defaultDir, isMobileApp, hasLocation,
  changes, mountTriggers,
  \* --- events
  parallels,       \* getParallels(bookKey): << >> for null, << S >> for a Set
  uiDir,           \* getDirFromUILanguage()
  docs,            \* the content documents: flag and registered listeners
  lastEvent,       \* the event the most recent handler run received
  goTos,           \* goTo calls that run made, per target book key
  aux,             \* calls that run made on a content document
  inflight,        \* detail.data chains not settled yet
  delivered,       \* what the last settled chain handed to the widget
  logged,          \* console.error diagnostics of the last settled chain
  relocates,       \* details of the Relocate events handled, in order
  progressLog      \* argument lists of the setProgress calls, in order

vars == << isViewCreated, viewRef, pc, openStarts, created, openPadding,
           capSettings, capIsStore, viewState, bookDir, openedDir, attrs, calls,
           navCalls,
           settings, views, padding, themeCode, isDarkMode,
           rPadding, rSettings, rTheme, pend, ran,
           rView, language, defaultDir, isMobileApp, hasLocation, changes,
           mountTriggers, parallels, uiDir, docs, lastEvent, goTos, aux,
           inflight, delivered, logged, relocates, progressLog >>

refVars   == << isViewCreated, pc, openStarts, openPadding >>
widgetVars == << created, viewState, bookDir, openedDir, navCalls, viewRef, views >>
openVars  == << widgetVars, capSettings, capIsStore >>
storeVars == << settings, padding, themeCode, isDarkMode >>
reactVars == << rPadding, rSettings, rTheme, rView >>
envVars   == << language, defaultDir, isMobileApp, hasLocation, parallels, uiDir >>
progVars  == << relocates, progressLog >>
evVars    == << docs, lastEvent, goTos, aux, inflight, delivered, logged, progVars >>

\* ------------------------------------------------------- external helpers
\* utils/book getBookDirFromWritingMode
getBookDirFromWritingMode(wm) ==
  CASE wm = "horizontal-tb" -> "ltr"
    [] wm = "horizontal-rl" -> "rtl"
    [] wm = "vertical-rl"   -> "rtl"
    [] OTHER                -> "auto"

\* utils/book getBookDirFromLanguage
getBookDirFromLanguage(lang) ==
  IF lang \in {"ar", "he", "fa"} THEN "rtl" ELSE "auto"

\* utils/style getStyles: the stylesheet is a function of the settings
getStyles(vs) ==
  [ fontSize |-> vs.defaultFontSize, writingMode |-> vs.writingMode,
    vertical |-> vs.vertical ]

\* utils/config getMaxInlineSize
getMaxInlineSize(vs) ==
  IF vs.maxColumnCount = 1 \/ vs.scrolled \/ vs.vertical
    THEN IF vs.maxInlineSize > vs.maxBlockSize THEN vs.maxInlineSize ELSE vs.maxBlockSize
    ELSE vs.maxInlineSize

\* ------------------------------------------------------------ the renderer
NoAttrs ==
  [ styles |-> "unset", animated |-> "unset", maxColumnCount |-> "unset",
    maxInlineSize |-> "unset", maxBlockSize |-> "unset",
    margin |-> "unset", gap |-> "unset", flow |-> "unset" ]

SetStyles(s)     == [ op |-> "setStyles", name |-> "styles", value |-> s ]
SetAttr(n, v)    == [ op |-> "setAttribute", name |-> n, value |-> v ]
RemoveAttr(n)    == [ op |-> "removeAttribute", name |-> n, value |-> "unset" ]

\* the renderer after one call
ApplyCall(a, c) == [ a EXCEPT ![c.name] = c.value ]

RECURSIVE ApplyCalls(_, _)
ApplyCalls(a, cs) ==
  IF cs = << >> THEN a ELSE ApplyCalls(ApplyCall(a, Head(cs)), Tail(cs))

Written(cs) == { cs[i].name : i \in 1..Len(cs) }

\* an applyMarginAndGap that writes the flow for both values of scrolled
applyMarginAndGapFlowBoth(ref, vs, ptop) ==
  LET isCompact  == ~vs.showHeader /\ ~vs.showFooter
      marginPx   == IF isCompact THEN vs.compactMarginPx ELSE vs.marginPx
      gapPercent == IF isCompact THEN vs.compactGapPercent ELSE vs.gapPercent
  IN IF ~ref THEN << >>
     ELSE << SetAttr("margin", << marginPx + ptop, "px" >>),
             SetAttr("gap", << gapPercent, "%" >>),
             SetAttr("flow", IF vs.scrolled THEN "scrolled" ELSE "paginated") >>

\* applyMarginAndGap, lines 246-258: the renderer calls it makes, given
\* the ref, the latest settings and the padding.top of the closure it runs in
applyMarginAndGap(ref, vs, ptop) ==
  LET isCompact  == ~vs.showHeader /\ ~vs.showFooter
      marginPx   == IF isCompact THEN vs.compactMarginPx ELSE vs.marginPx
      gapPercent == IF isCompact THEN vs.compactGapPercent ELSE vs.gapPercent
  IN IF ~ref THEN << >>
     ELSE << SetAttr("margin", << marginPx + ptop, "px" >>),
             SetAttr("gap", << gapPercent, "%" >>) >>
          \o (IF vs.scrolled THEN << SetAttr("flow", "scrolled") >> ELSE << >>)

\* a theme effect that re-applies the layout too
themeEffectAndLayout(ref, vs) ==
  IF ref THEN << SetStyles(getStyles(vs)) >> \o applyMarginAndGap(ref, vs, 0) ELSE << >>

\* a theme effect without the test of the ref
themeEffectNoGuard(ref, vs) ==
  << SetStyles(getStyles(vs)) >>

\* theme effect, lines 260-266
themeEffect(ref, vs) ==
  IF ref THEN << SetStyles(getStyles(vs)) >> ELSE << >>

\* a margin/gap effect that recomputes the styles too
marginEffectAndStyles(ref, vs, ptop) ==
  IF ref THEN << SetStyles(getStyles(vs)) >> \o applyMarginAndGap(ref, vs, ptop) ELSE << >>

\* margin/gap effect, lines 268-284 (viewSettings of the render is non-null)
marginEffect(ref, vs, ptop) ==
  IF ref THEN applyMarginAndGap(ref, vs, ptop) ELSE << >>

\* dependency arrays of the two effects
ThemeDeps(t, d) == << t, d >>
MarginDeps(p, vs) ==
  << p, vs.showHeader, vs.showFooter, vs.marginPx, vs.compactMarginPx,
     vs.gapPercent, vs.compactGapPercent >>

\* --------------------------------------------------------------- openBook
\* the resolution with the language consulted before the writing mode
resolveDirLanguageFirst(vs, lang, dir) ==
  IF vs.writingMode # ""
    THEN LET settingsDir == getBookDirFromWritingMode(vs.writingMode)
             languageDir == getBookDirFromLanguage(lang)
         IN IF languageDir # "auto" THEN languageDir
            ELSE IF settingsDir # "auto" THEN settingsDir
            ELSE dir
    ELSE dir

\* lines 188-198: bookDoc.dir after the writing-direction resolution
resolveDir(vs, lang, dir) ==
  IF vs.writingMode # ""
    THEN LET settingsDir == getBookDirFromWritingMode(vs.writingMode)
             languageDir == getBookDirFromLanguage(lang)
         IN IF settingsDir # "auto" THEN settingsDir
            ELSE IF languageDir # "auto" THEN languageDir
            ELSE dir
    ELSE dir

\* lines 224-232: layout attributes written after the orientation lock
layoutCalls(cap, vs, ptop) ==
  << IF cap.animated THEN SetAttr("animated", "") ELSE RemoveAttr("animated"),
     SetAttr("maxColumnCount", cap.maxColumnCount),
     SetAttr("maxInlineSize", << getMaxInlineSize(cap), "px" >>),
     SetAttr("maxBlockSize", << cap.maxBlockSize, "px" >>) >>
  \o applyMarginAndGap(TRUE, vs, ptop)

\* an initial navigation that ignores the saved location
initialNavAlwaysStart(loc) == [ op |-> "goToFraction", arg |-> 0 ]

\* lines 234-239
initialNav(loc) ==
  IF loc THEN [ op |-> "init", arg |-> "lastLocation" ]
         ELSE [ op |-> "goToFraction", arg |-> 0 ]

\* ------------------------------------------------------------------ events
Docs == {"d1", "d2"}
Names == {"a.css", "b.xhtml"}
Types == {"text/css", "application/xhtml+xml", "image/png"}
Reasons == {"scroll", "page", "resize", "selection"}
Indexes == {3, 4}
Fractions == {0, 1}
GestureTypes ==
  << "keydown", "mousedown", "mouseup", "click", "wheel",
     "touchstart", "touchmove", "touchend" >>

NoListeners == [ isEventListenersAdded |-> FALSE, listeners |-> << >> ]
NoEvent     == [ kind |-> "none", a |-> "none", b |-> "none", c |-> "none" ]
NoGoTos     == [ k \in Keys |-> << >> ]
NoPayload   == [ name |-> "none", state |-> "none", value |-> << "none" >> ]

\* what `renderer.setStyles && getDirection(doc)` can evaluate to, line 109;
\* defined is FALSE for a renderer without setStyles
WritingDirs ==
  { [ defined |-> FALSE, vertical |-> FALSE, rtl |-> FALSE ] }
  \cup [ defined : {TRUE}, vertical : BOOLEAN, rtl : BOOLEAN ]

\* the characters of the strings that line 113-117 handle
Chars(s) ==
  CASE s = "auto"          -> << "a", "u", "t", "o" >>
    [] s = "horizontal-tb" -> << "h", "o", "r", "i", "z", "o", "n", "t", "a", "l", "-", "t", "b" >>
    [] s = "horizontal-rl" -> << "h", "o", "r", "i", "z", "o", "n", "t", "a", "l", "-", "r", "l" >>
    [] s = "vertical-rl"   -> << "v", "e", "r", "t", "i", "c", "a", "l", "-", "r", "l" >>
    [] s = "vertical"      -> << "v", "e", "r", "t", "i", "c", "a", "l" >>
    [] s = "rl"            -> << "r", "l" >>

\* sub occurs in str as a run of consecutive characters
IsSubstring(sub, str) ==
  \E i \in 0..(Len(str) - Len(sub)) :
    \A j \in 1..Len(sub) : str[i + j] = sub[j]

\* String.prototype.includes
Includes(wm, sub) == IsSubstring(Chars(sub), Chars(wm))

\* utils/lang isCJKLang
isCJKLang(lang) == lang \in {"zh", "ja", "ko"}

\* propagation that does not skip the originating book key
docRelocateCallsNoSkip(reason, index, fraction) ==
  [ k \in Keys |->
      IF reason # "scroll" /\ reason # "page" THEN << >>
      ELSE IF parallels = << >> \/ Cardinality(parallels[1]) = 0 THEN << >>
      ELSE IF k \in parallels[1] /\ views[k] = "ok"
        THEN << [ index |-> index, anchor |-> fraction ] >>
        ELSE << >> ]

\* propagation without the filter on the reason
docRelocateCallsNoFilter(reason, index, fraction) ==
  [ k \in Keys |->
      IF parallels = << >> \/ Cardinality(parallels[1]) = 0 THEN << >>
      ELSE IF k \in parallels[1] /\ k # Self /\ views[k] = "ok"
        THEN << [ index |-> index, anchor |-> fraction ] >>
        ELSE << >> ]

\* propagation that fails at the first member without a renderer (the
\* members are visited in the order A, B, C) and so never reaches the rest
docRelocateCallsAbortOnMissing(reason, index, fraction) ==
  LET order == << "A", "B", "C" >>
      missing(i) == /\ order[i] \in parallels[1] /\ order[i] # Self
                    /\ views[order[i]] # "ok"
      pos(k) == CHOOSE i \in 1..3 : order[i] = k
  IN [ k \in Keys |->
         IF reason # "scroll" /\ reason # "page" THEN << >>
         ELSE IF parallels = << >> \/ Cardinality(parallels[1]) = 0 THEN << >>
         ELSE IF /\ k \in parallels[1] /\ k # Self /\ views[k] = "ok"
                 /\ \A i \in 1..pos(k) : ~missing(i)
           THEN << [ index |-> index, anchor |-> fraction ] >>
           ELSE << >> ]

\* docRelocateHandler, lines 145-160: the goTo calls it makes on each key
docRelocateCalls(reason, index, fraction) ==
  [ k \in Keys |->
      IF reason # "scroll" /\ reason # "page" THEN << >>
      ELSE IF parallels = << >> \/ Cardinality(parallels[1]) = 0 THEN << >>
      ELSE IF k \in parallels[1] /\ k # Self /\ views[k] = "ok"
        THEN << [ index |-> index, anchor |-> fraction ] >>
        ELSE << >> ]

\* details a Relocate event can carry
RelocateDetails ==
  { [ cfi |-> "cfi-1", tocItem |-> "ch1", section |-> 1, location |-> 10,
      time |-> 100, range |-> "r1" ],
    [ cfi |-> "cfi-2", tocItem |-> "ch1", section |-> 2, location |-> 20,
      time |-> 200, range |-> "r2" ],
    [ cfi |-> "cfi-3", tocItem |-> "ch2", section |-> 3, location |-> 30,
      time |-> 300, range |-> "r3" ] }

\* a handler that skips an event whose cfi was written last
setProgressCallsCoalesced(log, detail) ==
  IF log # << >> /\ log[Len(log)][2] = detail.cfi
    THEN log
    ELSE Append(log, << Self, detail.cfi, detail.tocItem, detail.section,
                        detail.location, detail.time, detail.range >>)

\* lines 66-77: the setProgress calls after the handler has run
setProgressCalls(log, detail) ==
  Append(log, << Self, detail.cfi, detail.tocItem, detail.section,
                 detail.location, detail.time, detail.range >>)

\* the flags without the UI-language term
withDirectionNoUi(vs, wd) ==
  [ vs EXCEPT
      !.vertical = (wd.defined /\ wd.vertical)
                   \/ Includes(vs.writingMode, "vertical"),
      !.rtl = (wd.defined /\ wd.rtl)
              \/ Includes(vs.writingMode, "rl") ]

\* lines 112-118: the settings object the Load handler stores
withDirection(vs, wd) ==
  [ vs EXCEPT
      !.vertical = (wd.defined /\ wd.vertical)
                   \/ Includes(vs.writingMode, "vertical"),
      !.rtl = (wd.defined /\ wd.rtl)
              \/ uiDir = "rtl"
              \/ Includes(vs.writingMode, "rl") ]

\* the registration without the per-document flag
withListenersUnguarded(d) ==
  [ isEventListenersAdded |-> TRUE,
    listeners |-> d.listeners
       \o [ i \in 1..Len(GestureTypes) |-> << GestureTypes[i], Self >> ] ]

\* lines 128-141: the content document after the listener registration
withListeners(d) ==
  IF d.isEventListenersAdded THEN d
  ELSE [ isEventListenersAdded |-> TRUE,
         listeners |-> d.listeners
            \o [ i \in 1..Len(GestureTypes) |-> << GestureTypes[i], Self >> ] ]

\* the chain without its .catch: a failure rejects detail.data
settleDataNoCatch(p, vs, tf) ==
  LET failed == \/ p.src = "reject"
                \/ /\ p.type \in {"text/css", "application/xhtml+xml"}
                   /\ tf \in {"throw", "reject"}
  IN IF failed
       THEN [ payload |-> [ name |-> p.name, state |-> "rejected", value |-> << "error" >> ],
              log |-> << >> ]
       ELSE [ payload |-> [ name |-> p.name, state |-> "fulfilled",
                            value |-> CASE p.type = "text/css" -> << "stylesheet", vs.defaultFontSize >>
                                        [] p.type = "application/xhtml+xml" -> << "content", Self >>
                                        [] OTHER -> << "raw" >> ],
              log |-> << >> ]

\* lines 83-101: what the chain attached to detail.data settles to; src is
\* how the original promise settles, tf how the transform behaves if called.
\* Payload text is a sequence of tokens, the empty string the empty sequence.
settleData(p, vs, tf) ==
  LET failed == \/ p.src = "reject"
                \/ /\ p.type \in {"text/css", "application/xhtml+xml"}
                   /\ tf \in {"throw", "reject"}
  IN IF failed
       THEN [ payload |-> [ name |-> p.name, state |-> "fulfilled", value |-> << >> ],
              log |-> << p.name >> ]
       ELSE [ payload |-> [ name |-> p.name, state |-> "fulfilled",
                            value |-> CASE p.type = "text/css" -> << "stylesheet", vs.defaultFontSize >>
                                        [] p.type = "application/xhtml+xml" -> << "content", Self >>
                                        [] OTHER -> << "raw" >> ],
              log |-> << >> ]

\* the state after the first render of the component has committed: all
\* three effects are scheduled, nothing has run yet
InitWith(vs, lang, dir, mobile, loc, par, others, ui) ==
  /\ isViewCreated = FALSE /\ viewRef = FALSE /\ pc = "idle"
  /\ openStarts = 0 /\ created = 0
  /\ padding = 0 /\ openPadding = padding
  /\ settings = vs /\ capSettings = vs /\ capIsStore = FALSE
  /\ viewState = "none"
  /\ defaultDir = dir /\ bookDir = dir /\ openedDir = "none"
  /\ attrs = NoAttrs /\ calls = << >> /\ navCalls = << >>
  /\ views = [ k \in Keys |-> IF k = Self THEN "none" ELSE others[k] ]
  /\ themeCode = "default" /\ isDarkMode = FALSE
  /\ rPadding = padding /\ rSettings = settings /\ rView = FALSE
  /\ rTheme = ThemeDeps(themeCode, isDarkMode)
  /\ pend = {"mount", "theme", "margin"} /\ ran = {}
  /\ language = lang /\ isMobileApp = mobile /\ hasLocation = loc
  /\ changes = 0 /\ mountTriggers = 0
  /\ parallels = par /\ uiDir = ui
  /\ docs = [ d \in Docs |-> NoListeners ]
  /\ lastEvent = NoEvent /\ goTos = NoGoTos /\ aux = << >>
  /\ inflight = << >> /\ delivered = NoPayload /\ logged = << >>
  /\ relocates = << >> /\ progressLog = << >>

NoOthers == [ k \in Keys \ {Self} |-> "none" ]

Init ==
  \E mobile \in BOOLEAN :
    InitWith(DefaultSettings, "en", "ltr", mobile, FALSE, << >>, NoOthers, "ltr")

\* a mount effect that starts openBook again after a failed attempt
mountEffectRetry ==
  IF isViewCreated /\ pc # "failed"
    THEN UNCHANGED refVars
    ELSE /\ isViewCreated' = TRUE
         /\ openStarts' = openStarts + 1
         /\ openPadding' = rPadding
         /\ pc' = "import"

\* the mount effect without the isViewCreated latch
mountEffectNoLatch ==
  /\ isViewCreated' = TRUE
  /\ openStarts' = openStarts + 1
  /\ openPadding' = rPadding
  /\ pc' = "import"

\* mount effect, lines 172-176 and 242: the latch, then openBook runs up to
\* its first await (the dynamic import)
mountEffect ==
  IF isViewCreated
    THEN UNCHANGED refVars
    ELSE /\ isViewCreated' = TRUE
         /\ openStarts' = openStarts + 1
         /\ openPadding' = rPadding
         /\ pc' = "import"

\* React flushes the passive effects of the last commit, in source order
FlushEffects ==
  /\ pend # {}
  /\ IF "mount" \in pend THEN mountEffect ELSE UNCHANGED refVars
  /\ calls' = (IF "theme" \in pend THEN themeEffect(viewRef, settings) ELSE << >>)
           \o (IF "margin" \in pend THEN marginEffect(viewRef, settings, rPadding) ELSE << >>)
  /\ attrs' = ApplyCalls(attrs, calls')
  /\ ran' = pend /\ pend' = {}
  /\ UNCHANGED << openVars, storeVars, reactVars, envVars, changes, mountTriggers, evVars >>

\* the mount effect is run again on the same instance
RetriggerMount ==
  /\ mountTriggers < MaxMountTriggers
  /\ isViewCreated
  /\ mountTriggers' = mountTriggers + 1
  /\ mountEffect
  /\ calls' = << >> /\ ran' = {"mount"}
  /\ UNCHANGED << openVars, attrs, storeVars, reactVars, pend, envVars, changes, evVars >>

\* a render commits: it sees the current props and stores and schedules the
\* effects whose dependencies differ from those of the previous commit
Render ==
  /\ pend = {}
  /\ << rPadding, rSettings, rTheme, rView >>
       # << padding, settings, ThemeDeps(themeCode, isDarkMode), viewRef >>
  /\ rPadding' = padding /\ rSettings' = settings /\ rView' = viewRef
  /\ rTheme' = ThemeDeps(themeCode, isDarkMode)
  /\ pend' = (IF rTheme' # rTheme THEN {"theme"} ELSE {})
             \cup (IF MarginDeps(rPadding', rSettings') # MarginDeps(rPadding, rSettings)
                     THEN {"margin"} ELSE {})
  /\ calls' = << >> /\ ran' = {}
  /\ UNCHANGED << refVars, openVars, attrs, storeVars, envVars, changes, mountTriggers, evVars >>

\* openBook publishing the view before it awaits view.open
ImportDoneEager(ok) ==
  /\ pc = "import"
  /\ IF ok
       THEN /\ created' = created + 1
            /\ capSettings' = settings /\ capIsStore' = TRUE
            /\ bookDir' = resolveDir(settings, language, bookDir)
            /\ openedDir' = bookDir'
            /\ viewState' = "opening"
            /\ viewRef' = TRUE
            /\ views' = [ views EXCEPT ![Self] = "ok" ]
            /\ pc' = "open"
       ELSE /\ pc' = "failed"
            /\ UNCHANGED << created, capSettings, capIsStore, bookDir, openedDir, viewState,
                            viewRef, views >>
  /\ calls' = << >> /\ ran' = {}
  /\ UNCHANGED << isViewCreated, openStarts, openPadding, navCalls,
                  attrs, storeVars, reactVars, pend, envVars, changes, mountTriggers, evVars >>

\* line 178 resolves; lines 179-200 run up to the await of view.open
ImportDone(ok) ==
  /\ pc = "import"
  /\ IF ok
       THEN /\ created' = created + 1
            /\ capSettings' = settings /\ capIsStore' = TRUE
            /\ bookDir' = resolveDir(settings, language, bookDir)
            /\ openedDir' = bookDir'
            /\ viewState' = "opening"
            /\ pc' = "open"
       ELSE /\ pc' = "failed"
            /\ UNCHANGED << created, capSettings, capIsStore, bookDir, openedDir, viewState >>
  /\ calls' = << >> /\ ran' = {}
  /\ UNCHANGED << isViewCreated, openStarts, openPadding, viewRef, views, navCalls,
                  attrs, storeVars, reactVars, pend, envVars, changes, mountTriggers, evVars >>

\* lines 224-239, run without suspension
finishOpen(before) ==
  /\ calls' = before \o layoutCalls(capSettings, settings, openPadding)
  /\ attrs' = ApplyCalls(attrs, calls')
  /\ navCalls' = Append(navCalls, initialNav(hasLocation))
  /\ pc' = "nav"

\* line 200 resolves; lines 202-223 run
OpenDone(ok) ==
  /\ pc = "open"
  /\ IF ok
       THEN /\ viewState' = "opened"
            /\ viewRef' = TRUE
            /\ views' = [ views EXCEPT ![Self] = "ok" ]
            /\ IF isMobileApp
                 THEN /\ calls' = << SetStyles(getStyles(capSettings)) >>
                      /\ attrs' = ApplyCalls(attrs, calls')
                      /\ pc' = "lock"
                      /\ UNCHANGED navCalls
                 ELSE finishOpen(<< SetStyles(getStyles(capSettings)) >>)
       ELSE /\ viewState' = "failed" /\ pc' = "failed"
            /\ calls' = << >>
            /\ UNCHANGED << viewRef, views, attrs, navCalls >>
  /\ ran' = {}
  /\ UNCHANGED << isViewCreated, openStarts, openPadding, created, capSettings, capIsStore,
                  bookDir, openedDir, storeVars, reactVars, pend, envVars,
                  changes, mountTriggers, evVars >>

\* line 222 resolves
LockDone(ok) ==
  /\ pc = "lock"
  /\ IF ok
       THEN finishOpen(<< >>)
       ELSE /\ pc' = "failed" /\ calls' = << >>
            /\ UNCHANGED << attrs, navCalls >>
  /\ ran' = {}
  /\ UNCHANGED << isViewCreated, openStarts, openPadding, created, capSettings, capIsStore,
                  viewState, bookDir, openedDir, viewRef, views,
                  storeVars, reactVars, pend, envVars, changes, mountTriggers, evVars >>

\* line 236 or 238 resolves
NavDone ==
  /\ pc = "nav"
  /\ pc' = "done"
  /\ calls' = << >> /\ ran' = {}
  /\ UNCHANGED << isViewCreated, openStarts, openPadding, openVars, attrs,
                  storeVars, reactVars, pend, envVars, changes, mountTriggers, evVars >>

\* ------------------------------------------------------------ environment
\* The stores notify React synchronously and a changed prop arrives with the
\* parent's render, so a change is rendered before the next change is made;
\* awaited continuations and widget events can still run in between.
RenderCurrent ==
  << rPadding, rSettings, rTheme >> = << padding, settings, ThemeDeps(themeCode, isDarkMode) >>

\* another component stores a new settings object for book key A
UpdateSettings(f, v) ==
  /\ changes < MaxChanges
  /\ RenderCurrent
  /\ settings[f] # v
  /\ settings' = [ settings EXCEPT ![f] = v ]
  /\ capIsStore' = FALSE
  /\ changes' = changes + 1
  /\ calls' = << >> /\ ran' = {}
  /\ UNCHANGED << refVars, widgetVars, capSettings, attrs, padding, themeCode, isDarkMode,
                  reactVars, pend, envVars, mountTriggers, evVars >>

\* the parent passes another padding
ChangePadding(p) ==
  /\ changes < MaxChanges
  /\ RenderCurrent
  /\ padding # p
  /\ padding' = p
  /\ changes' = changes + 1
  /\ calls' = << >> /\ ran' = {}
  /\ UNCHANGED << refVars, openVars, attrs, settings, themeCode, isDarkMode,
                  reactVars, pend, envVars, mountTriggers, evVars >>

\* the theme store changes
ChangeTheme(t, d) ==
  /\ changes < MaxChanges
  /\ RenderCurrent
  /\ << t, d >> # << themeCode, isDarkMode >>
  /\ themeCode' = t /\ isDarkMode' = d
  /\ changes' = changes + 1
  /\ calls' = << >> /\ ran' = {}
  /\ UNCHANGED << refVars, openVars, attrs, settings, padding,
                  reactVars, pend, envVars, mountTriggers, evVars >>

\* allowScript is changed on the object the store holds, the way lines
\* 112-118 change vertical and rtl: whoever still holds that object sees it
SetAllowScript(v) ==
  /\ changes < MaxChanges
  /\ settings.allowScript # v
  /\ settings' = [ settings EXCEPT !.allowScript = v ]
  /\ capSettings' = IF capIsStore THEN [ capSettings EXCEPT !.allowScript = v ]
                                  ELSE capSettings
  /\ changes' = changes + 1
  /\ calls' = << >> /\ ran' = {}
  /\ UNCHANGED << refVars, widgetVars, capIsStore, attrs, padding, themeCode,
                  isDarkMode, reactVars, pend, envVars, mountTriggers, evVars >>

\* ---------------------------------------------------------- event handlers
\* useFoliateEvents subscribes the handlers to the view the render saw
Subscribed == rView

\* docRelocateHandler, lines 145-160
docRelocateHandler(reason, index, fraction) ==
  /\ Subscribed
  /\ lastEvent' = [ kind |-> "rendererRelocate", a |-> reason, b |-> index, c |-> fraction ]
  /\ goTos' = docRelocateCalls(reason, index, fraction)
  /\ calls' = << >> /\ ran' = {}
  /\ UNCHANGED << refVars, openVars, attrs, storeVars, reactVars, pend, envVars,
                  changes, mountTriggers, docs, aux, inflight, delivered, logged,
                  progVars >>

\* progressRelocateHandler, lines 66-77
progressRelocateHandler(detail) ==
  /\ Subscribed
  /\ Len(relocates) < MaxRelocates
  /\ lastEvent' = [ kind |-> "relocate", a |-> detail.cfi, b |-> "none", c |-> "none" ]
  /\ relocates' = Append(relocates, detail)
  /\ progressLog' = setProgressCalls(progressLog, detail)
  /\ calls' = << >> /\ ran' = {}
  /\ UNCHANGED << refVars, openVars, attrs, storeVars, reactVars, pend, envVars,
                  changes, mountTriggers, docs, goTos, aux, inflight, delivered, logged >>

\* the settings object of the render closure (line 49) instead
loadViewSettingsStale == rSettings

\* line 110: getViewSettings(bookKey) reads the store when the event fires
loadViewSettings == settings

\* docLoadHandler, lines 105-143
docLoadHandler(doc, wd) ==
  /\ Subscribed
  /\ lastEvent' = [ kind |-> "load", a |-> doc, b |-> "none", c |-> "none" ]
  /\ IF doc # "none"
       THEN /\ settings' = withDirection(loadViewSettings, wd)
            \* lines 112-118 assign on the store's object, line 119 stores a copy
            /\ capSettings' = IF capIsStore
                                THEN [ capSettings EXCEPT
                                         !.vertical = settings'.vertical,
                                         !.rtl = settings'.rtl ]
                                ELSE capSettings
            /\ capIsStore' = FALSE
            /\ aux' = << << "mountAdditionalFonts", doc, isCJKLang(language) >> >>
                      \o (IF settings'.codeHighlighting
                            THEN << << "manageSyntaxHighlighting", doc, TRUE >> >>
                            ELSE << >>)
            /\ docs' = [ docs EXCEPT ![doc] = withListeners(@) ]
       ELSE /\ aux' = << >>
            /\ UNCHANGED << settings, docs, capSettings, capIsStore >>
  /\ calls' = << >> /\ ran' = {}
  /\ UNCHANGED << refVars, widgetVars, attrs, padding, themeCode, isDarkMode,
                  reactVars, pend, envVars, changes, mountTriggers,
                  goTos, inflight, delivered, logged, progVars >>

\* the handler made by getDocTransformHandler, lines 80-102: it replaces
\* detail.data by the chained promise, which settles in a later task
docTransformHandler(name, type, src) ==
  /\ viewRef
  /\ Len(inflight) < MaxInflight
  /\ lastEvent' = [ kind |-> "data", a |-> name, b |-> type, c |-> src ]
  /\ inflight' = Append(inflight, [ name |-> name, type |-> type, src |-> src ])
  /\ calls' = << >> /\ ran' = {}
  /\ UNCHANGED << refVars, openVars, attrs, storeVars, reactVars, pend, envVars,
                  changes, mountTriggers, docs, goTos, aux, delivered, logged,
                  progVars >>

\* one chain settles: .then (lines 83-97) and .catch (lines 98-101)
SettleData(i, tf) ==
  /\ i \in 1..Len(inflight)
  /\ LET r == settleData(inflight[i], settings, tf)
     IN /\ delivered' = r.payload
        /\ logged' = r.log
  /\ inflight' = [ j \in 1..(Len(inflight) - 1) |->
                     IF j < i THEN inflight[j] ELSE inflight[j + 1] ]
  /\ calls' = << >> /\ ran' = {}
  /\ UNCHANGED << refVars, openVars, attrs, storeVars, reactVars, pend, envVars,
                  changes, mountTriggers, docs, lastEvent, goTos, aux, progVars >>

\* x ?? d, with << >> for undefined and << v >> for the value v
Nullish(x, d) == IF x = << >> THEN d ELSE x[1]

\* line 210: viewSettings is the constant of line 188
scriptPermission == Nullish(capSettings.allowScript, FALSE)

\* the 'load' listener of book.transformTarget, lines 207-212; b is
\* detail.allowScript as the listener leaves it
scriptLoadHandler(isScript) ==
  /\ viewRef
  /\ lastEvent' = [ kind |-> "resourceLoad",
                    a |-> IF isScript THEN "script" ELSE "other",
                    b |-> IF ~isScript THEN "unmodified"
                          ELSE IF scriptPermission THEN "true" ELSE "false",
                    c |-> "none" ]
  /\ calls' = << >> /\ ran' = {}
  /\ UNCHANGED << refVars, openVars, attrs, storeVars, reactVars, pend, envVars,
                  changes, mountTriggers, docs, goTos, aux, inflight, delivered,
                  logged, progVars >>

Next ==
  \/ FlushEffects
  \/ RetriggerMount
  \/ Render
  \/ \E ok \in BOOLEAN : ImportDone(ok)
  \/ \E ok \in BOOLEAN : OpenDone(ok)
  \/ \E ok \in BOOLEAN : LockDone(ok)
  \/ NavDone
  \/ \E f \in DOMAIN FieldValues : \E v \in FieldValues[f] : UpdateSettings(f, v)
  \/ \E p \in PaddingTops : ChangePadding(p)
  \/ \E t \in ThemeCodes : \E d \in BOOLEAN : ChangeTheme(t, d)

Spec == Init /\ [][Next]_vars

\* ---------------------------------------------------------------------
\* The open routine alone, over every writing mode, book language, default
\* direction, platform and saved location
InitOpen ==
  \E wm \in WritingModes, lang \in Languages, dir \in Dirs,
     mobile \in BOOLEAN, loc \in BOOLEAN :
    InitWith([ DefaultSettings EXCEPT !.writingMode = wm ], lang, dir, mobile, loc,
             << >>, NoOthers, "ltr")

NextOpen ==
  \/ FlushEffects
  \/ RetriggerMount
  \/ \E ok \in BOOLEAN : ImportDone(ok)
  \/ \E ok \in BOOLEAN : OpenDone(ok)
  \/ \E ok \in BOOLEAN : LockDone(ok)
  \/ NavDone

SpecOpen == InitOpen /\ [][NextOpen]_vars

\* ---------------------------------------------------------------------
\* Parallel views: the viewer of A with every parallel group and every
\* registration state of the viewers of B and C
OtherViews == [ Keys \ {Self} -> {"none", "bare", "ok"} ]
ParallelGroups == { << >>, << {} >>, << {"A", "B"} >>, << {"A", "B", "C"} >> }

InitSync ==
  \E par \in ParallelGroups, others \in OtherViews, mobile \in BOOLEAN :
    InitWith(DefaultSettings, "en", "ltr", mobile, FALSE, par, others, "ltr")

NextSync ==
  \/ FlushEffects
  \/ Render
  \/ \E ok \in BOOLEAN : ImportDone(ok)
  \/ \E ok \in BOOLEAN : OpenDone(ok)
  \/ \E ok \in BOOLEAN : LockDone(ok)
  \/ NavDone
  \/ \E r \in Reasons, i \in Indexes, f \in Fractions : docRelocateHandler(r, i, f)

SpecSync == InitSync /\ [][NextSync]_vars

\* ---------------------------------------------------------------------
\* Load events interleaved with settings updates by other components
LoadFieldValues ==
  [ marginPx |-> {44, 60}, scrolled |-> BOOLEAN, codeHighlighting |-> BOOLEAN ]

InitLoad ==
  \E wm \in WritingModes, ui \in {"ltr", "rtl"} :
    InitWith([ DefaultSettings EXCEPT !.writingMode = wm ], "en", "ltr", FALSE, FALSE,
             << >>, NoOthers, ui)

NextLoad ==
  \/ FlushEffects
  \/ Render
  \/ ImportDone(TRUE)
  \/ OpenDone(TRUE)
  \/ NavDone
  \/ \E f \in DOMAIN LoadFieldValues : \E v \in LoadFieldValues[f] : UpdateSettings(f, v)
  \/ \E d \in Docs \cup {"none"}, wd \in WritingDirs : docLoadHandler(d, wd)

SpecLoad == InitLoad /\ [][NextLoad]_vars

\* ---------------------------------------------------------------------
\* Content interception
InitData ==
  \E mobile \in BOOLEAN :
    InitWith(DefaultSettings, "en", "ltr", mobile, FALSE, << >>, NoOthers, "ltr")

NextData ==
  \/ FlushEffects
  \/ Render
  \/ ImportDone(TRUE)
  \/ OpenDone(TRUE)
  \/ LockDone(TRUE)
  \/ NavDone
  \/ \E n \in Names, t \in Types, src \in {"resolve", "reject"} : docTransformHandler(n, t, src)
  \/ \E i \in 1..MaxInflight, tf \in {"ok", "throw", "reject"} : SettleData(i, tf)

SpecData == InitData /\ [][NextData]_vars

\* ---------------------------------------------------------------------
\* The direction flags of Load events, over every writing mode and UI
\* direction, without other writers of the settings
NextFlags ==
  \/ FlushEffects
  \/ Render
  \/ ImportDone(TRUE)
  \/ OpenDone(TRUE)
  \/ NavDone
  \/ \E d \in Docs \cup {"none"}, wd \in WritingDirs : docLoadHandler(d, wd)

SpecFlags == InitLoad /\ [][NextFlags]_vars

\* ---------------------------------------------------------------------
\* Script permission: resource loads, section loads and changes of
\* allowScript, from every stored value of the setting
AllowScripts == { << >>, << FALSE >>, << TRUE >> }

InitScript ==
  \E a \in AllowScripts :
    InitWith([ DefaultSettings EXCEPT !.allowScript = a ], "en", "ltr", FALSE, FALSE,
             << >>, NoOthers, "ltr")

NextScript ==
  \/ FlushEffects
  \/ Render
  \/ ImportDone(TRUE)
  \/ OpenDone(TRUE)
  \/ NavDone
  \/ \E d \in Docs \cup {"none"} : docLoadHandler(d, [ defined |-> FALSE, vertical |-> FALSE, rtl |-> FALSE ])
  \/ \E a \in AllowScripts : SetAllowScript(a)
  \/ \E s \in BOOLEAN : scriptLoadHandler(s)

SpecScript == InitScript /\ [][NextScript]_vars

\* ---------------------------------------------------------------------
\* Reading progress
InitProgress ==
  \E mobile \in BOOLEAN, loc \in BOOLEAN :
    InitWith(DefaultSettings, "en", "ltr", mobile, loc, << >>, NoOthers, "ltr")

NextProgress ==
  \/ FlushEffects
  \/ Render
  \/ \E ok \in BOOLEAN : ImportDone(ok)
  \/ \E ok \in BOOLEAN : OpenDone(ok)
  \/ \E ok \in BOOLEAN : LockDone(ok)
  \/ NavDone
  \/ \E det \in RelocateDetails : progressRelocateHandler(det)

SpecProgress == InitProgress /\ [][NextProgress]_vars

\* =====================================================================
\* Properties
\* =====================================================================

\* C1: however often the mount effect runs on one component instance,
\* also while openBook is suspended, openBook starts and the widget is
\* constructed at most once.
C1_ConstructedAtMostOnce == openStarts <= 1 /\ created <= 1

C1_RetriggeredWhileSuspended ==
  /\ ran = {"mount"} /\ mountTriggers >= 1
  /\ pc = "open" /\ openStarts = 1 /\ created = 1

\* C2: viewRef and the view registry entry of the book key hold the widget
\* only once its open has completed.
C2_PublishedOnlyWhenOpened ==
  (viewRef \/ views[Self] # "none") => viewState = "opened"

C2_Published == viewRef /\ views[Self] = "ok" /\ viewState = "opened"

\* C3: a renderer-relocate with reason scroll or page, handled by the viewer
\* of A whose group is {A, B, C} with renderers for B and C: B and C each get
\* exactly one goTo with the event's index and its fraction as anchor, A none.
FullGroup ==
  /\ parallels = << {"A", "B", "C"} >>
  /\ views["B"] = "ok" /\ views["C"] = "ok"

C3_PropagatedToOthersOnce ==
  ( /\ lastEvent.kind = "rendererRelocate"
    /\ lastEvent.a \in {"scroll", "page"}
    /\ FullGroup )
  => /\ goTos["B"] = << [ index |-> lastEvent.b, anchor |-> lastEvent.c ] >>
     /\ goTos["C"] = << [ index |-> lastEvent.b, anchor |-> lastEvent.c ] >>
     /\ goTos["A"] = << >>

C3_Propagated ==
  /\ lastEvent.kind = "rendererRelocate" /\ lastEvent.a = "page"
  /\ FullGroup /\ views["A"] = "ok"
  /\ Len(goTos["B"]) = 1 /\ Len(goTos["C"]) = 1

\* C4: a renderer-relocate whose reason is neither scroll nor page makes no
\* goTo call on any member and changes no state of the component, the
\* stores or the widget.
handlerState ==
  << refVars, openVars, attrs, storeVars, reactVars, pend, envVars,
     docs, aux, inflight, delivered, logged, progVars >>

C4_OtherReasonsIgnored ==
  [][ \A r \in Reasons \ {"scroll", "page"} : \A i \in Indexes, f \in Fractions :
        docRelocateHandler(r, i, f)
        => /\ \A k \in Keys : goTos'[k] = << >>
           /\ UNCHANGED handlerState ]_vars

C4_ResizeIgnored ==
  /\ lastEvent.kind = "rendererRelocate" /\ lastEvent.a = "resize"
  /\ FullGroup
  /\ \A k \in Keys : goTos[k] = << >>

\* C5 as stated: a flush caused by the margin/gap dependencies alone, on an
\* opened widget, writes only the margin and gap attributes.
marginOnlyFlush == ran = {"margin"} /\ viewRef

C5_OnlyMarginAndGap ==
  marginOnlyFlush
  => /\ Written(calls) \subseteq {"margin", "gap"}
     /\ \A i \in 1..Len(calls) : calls[i].op = "setAttribute"

\* C5 amended: such a flush writes the margin and gap attributes and, when
\* the scrolled setting is true, the flow attribute; it calls no setStyles
\* and writes no other attribute.
C5_MarginGapAndFlow ==
  marginOnlyFlush
  => /\ Written(calls) =
          {"margin", "gap"} \cup (IF settings.scrolled THEN {"flow"} ELSE {})
     /\ \A i \in 1..Len(calls) : calls[i].op = "setAttribute"

C5_FlowWritten ==
  marginOnlyFlush /\ Written(calls) = {"margin", "gap", "flow"}

\* C6: a flush caused by the theme code or the dark-mode flag alone, on an
\* opened widget, makes one setStyles call with the styles of the latest
\* settings and writes no attribute.
C6_ThemeOnlyStyles ==
  (ran = {"theme"} /\ viewRef)
  => calls = << SetStyles(getStyles(settings)) >>

C6_ThemeApplied ==
  /\ ran = {"theme"} /\ viewRef
  /\ settings.defaultFontSize # capSettings.defaultFontSize
  /\ attrs.styles = getStyles(settings)
  /\ attrs.margin # "unset"

\* C7: a stylesheet or markup payload whose data promise rejects, or whose
\* transform throws or rejects, is delivered as the empty string with
\* exactly one diagnostic naming the resource; detail.data never rejects.
C7_FailureDegradesToEmpty ==
  [][ \A i \in 1..MaxInflight : \A tf \in {"ok", "throw", "reject"} :
        ( /\ i <= Len(inflight)
          /\ SettleData(i, tf)
          /\ inflight[i].type \in {"text/css", "application/xhtml+xml"}
          /\ (inflight[i].src = "reject" \/ tf \in {"throw", "reject"}) )
        => /\ delivered' = [ name |-> inflight[i].name, state |-> "fulfilled", value |-> << >> ]
           /\ logged' = << inflight[i].name >> ]_vars

C7_Degraded ==
  /\ lastEvent.kind = "data" /\ lastEvent.b = "text/css" /\ lastEvent.c = "resolve"
  /\ inflight = << >>
  /\ delivered = [ name |-> lastEvent.a, state |-> "fulfilled", value |-> << >> ]
  /\ logged = << lastEvent.a >>

\* C8: the direction view.open receives is the one of the writing-mode
\* setting when that is not auto, else the one of the book language when
\* that is not auto, else the document's own direction.
C8_DirectionPrecedence ==
  openedDir # "none"
  => LET settingsDir == getBookDirFromWritingMode(capSettings.writingMode)
         languageDir == getBookDirFromLanguage(language)
     IN /\ settingsDir # "auto" => openedDir = settingsDir
        /\ (settingsDir = "auto" /\ languageDir # "auto") => openedDir = languageDir
        /\ (settingsDir = "auto" /\ languageDir = "auto") => openedDir = defaultDir

C8_SettingOverridesLanguage ==
  /\ capSettings.writingMode = "horizontal-tb" /\ language = "ar"
  /\ defaultDir = "rtl" /\ openedDir = "ltr" /\ viewState = "opened"

\* C9: once open has finished, the last render is current and no effect is
\* pending, the margin attribute is the margin of the latest settings plus
\* the latest padding.top, and the gap attribute the matching gap.
Settled ==
  /\ pc \in {"nav", "done"} /\ pend = {}
  /\ rPadding = padding /\ rSettings = settings
  /\ rTheme = ThemeDeps(themeCode, isDarkMode) /\ rView = viewRef

latestMargin ==
  IF ~settings.showHeader /\ ~settings.showFooter
    THEN settings.compactMarginPx ELSE settings.marginPx

latestGap ==
  IF ~settings.showHeader /\ ~settings.showFooter
    THEN settings.compactGapPercent ELSE settings.gapPercent

C9_MarginFollowsLatest ==
  Settled => /\ attrs.margin = << latestMargin + padding, "px" >>
             /\ attrs.gap = << latestGap, "%" >>

\* C10: a Load event stores the settings that were in the store right
\* before it with only vertical and rtl replaced.
\* (a step that is not an update by another component leaves `changes`)
C10_LoadKeepsOtherFields ==
  [][ (lastEvent'.kind = "load" /\ changes' = changes)
        => \A f \in (DOMAIN settings) \ {"vertical", "rtl"} : settings'[f] = settings[f] ]_vars

C10_LoadAfterUnrenderedUpdate ==
  /\ lastEvent.kind = "load" /\ lastEvent.a # "none"
  /\ aux = << << "mountAdditionalFonts", lastEvent.a, FALSE >>,
              << "manageSyntaxHighlighting", lastEvent.a, TRUE >> >>
  /\ settings.codeHighlighting /\ ~rSettings.codeHighlighting

\* C11: whatever Load events arrive, also repeated ones for the same
\* content document, a document that a Load event carried has the eight
\* gesture listeners registered exactly once, each bound to the book key,
\* and a document no Load event carried has none.
EightListeners ==
  << << "keydown", "A" >>, << "mousedown", "A" >>, << "mouseup", "A" >>,
     << "click", "A" >>, << "wheel", "A" >>, << "touchstart", "A" >>,
     << "touchmove", "A" >>, << "touchend", "A" >> >>

C11_ListenersOncePerDocument ==
  /\ \A d \in Docs :
       docs[d].listeners = (IF docs[d].isEventListenersAdded THEN EightListeners ELSE << >>)
  /\ (lastEvent.kind = "load" /\ lastEvent.a # "none")
       => docs[lastEvent.a].listeners = EightListeners

\* the document d1 was loaded twice (the first Load made rtl true and a
\* render saw it, the second made it false again) and d2 never
C11_LoadedTwice ==
  /\ lastEvent.kind = "load" /\ lastEvent.a = "d1"
  /\ uiDir = "ltr" /\ settings.writingMode = "auto"
  /\ rSettings.rtl /\ ~settings.rtl
  /\ ~docs["d2"].isEventListenersAdded
  /\ docs["d1"].listeners = EightListeners

\* C12: the setProgress calls are, in order, exactly the Relocate events
\* handled: one call per event, for the book key, carrying that event's
\* cfi, tocItem, section, location, time and range.
C12_OneWritePerRelocate ==
  /\ Len(progressLog) = Len(relocates)
  /\ \A i \in 1..Len(relocates) :
       progressLog[i] = << "A", relocates[i].cfi, relocates[i].tocItem,
                           relocates[i].section, relocates[i].location,
                           relocates[i].time, relocates[i].range >>

\* the same event twice in a row gives two writes
C12_RepeatedEvent ==
  /\ Len(relocates) = 2 /\ relocates[1] = relocates[2]
  /\ Len(progressLog) = 2 /\ progressLog[1] = progressLog[2]
  /\ lastEvent.kind = "relocate"

\* C13: when an accepted renderer-relocate is propagated, a member of the
\* group without a view or without a renderer gets no call and stops
\* nothing: every other member but the originating one that has a renderer
\* gets its one goTo call.
C13_MissingRendererSkipped ==
  ( /\ lastEvent.kind = "rendererRelocate"
    /\ lastEvent.a \in {"scroll", "page"}
    /\ parallels # << >> )
  => \A k \in Keys :
       /\ (k \in parallels[1] /\ k # "A" /\ views[k] = "ok")
            => goTos[k] = << [ index |-> lastEvent.b, anchor |-> lastEvent.c ] >>
       /\ (k \notin parallels[1] \/ k = "A" \/ views[k] # "ok")
            => goTos[k] = << >>

\* B has no view, C has a renderer and is still reached
C13_SkippedAndReached ==
  /\ lastEvent.kind = "rendererRelocate" /\ lastEvent.a = "scroll"
  /\ parallels = << {"A", "B", "C"} >>
  /\ views["B"] = "none" /\ views["C"] = "ok"
  /\ goTos["B"] = << >> /\ Len(goTos["C"]) = 1

\* C14: when the module load or view.open has failed, the widget is in
\* neither viewRef nor the view registry, no style or attribute has been
\* written, no navigation has been issued, and no run of the mount effect
\* starts a second attempt: openBook stays failed, started once.
openFailed == pc = "failed" /\ viewState \in {"none", "failed"}

C14_NoRetryAfterFailure ==
  /\ openFailed
       => /\ ~viewRef /\ views["A"] = "none"
          /\ attrs = NoAttrs /\ calls = << >>
          /\ navCalls = << >>
          /\ openStarts = 1 /\ created <= 1
  /\ (pc = "failed") => openStarts = 1

\* the mount effect ran again after view.open had failed
C14_RetriggeredAfterFailure ==
  /\ openFailed /\ viewState = "failed"
  /\ ran = {"mount"} /\ mountTriggers >= 1
  /\ openStarts = 1

\* C15 as stated: once view.open has succeeded and openBook has run to its
\* last step or stopped, exactly one initial navigation has been issued,
\* after the styles and layout attributes: init at the saved location when
\* there is one, else goToFraction(0).
expectedNav ==
  IF hasLocation THEN << [ op |-> "init", arg |-> "lastLocation" ] >>
                 ELSE << [ op |-> "goToFraction", arg |-> 0 ] >>

layoutWritten ==
  /\ attrs.styles = getStyles(capSettings)
  /\ attrs.maxColumnCount = capSettings.maxColumnCount
  /\ attrs.maxInlineSize = << getMaxInlineSize(capSettings), "px" >>
  /\ attrs.maxBlockSize = << capSettings.maxBlockSize, "px" >>
  /\ attrs.margin = << latestMargin + padding, "px" >>
  /\ attrs.gap = << latestGap, "%" >>

C16_DirectionFlags ==
  [][ \A d \in Docs : \A wd \in WritingDirs :
        docLoadHandler(d, wd)
        => /\ settings'.rtl =
                ( \/ (wd.defined /\ wd.rtl)
                  \/ uiDir = "rtl"
                  \/ settings.writingMode \in {"horizontal-rl", "vertical-rl"} )
           /\ settings'.vertical =
                ( \/ (wd.defined /\ wd.vertical)
                  \/ settings.writingMode = "vertical-rl" ) ]_vars

\* rtl set by the UI language alone: the writing mode has no "rl" and the
\* flag was still false when the last render ran
C16_RtlFromUiLanguage ==
  /\ lastEvent.kind = "load" /\ lastEvent.a # "none"
  /\ uiDir = "rtl" /\ settings.writingMode = "horizontal-tb"
  /\ settings.rtl /\ ~settings.vertical /\ ~rSettings.rtl

\* allowScript ?? false of the settings the store holds
scriptPermissionFromStore == Nullish(settings.allowScript, FALSE)

\* C17: every resource load flagged as a script leaves with the permission
\* that the settings of the book give when the event fires, false when
\* allowScript is unset, and a load not flagged as a script leaves
\* unmodified, also after allowScript was changed once the book is open.
C17_PermissionFromCurrentSettings ==
  [][ \A s \in BOOLEAN :
        scriptLoadHandler(s)
        => lastEvent'.b = ( IF ~s THEN "unmodified"
                            ELSE IF scriptPermissionFromStore THEN "true"
                            ELSE "false" ) ]_vars

\* C18: setStyles and the layout attributes are written on the renderer
\* only once view.open has completed; until then no task calls the
\* renderer and nothing is written on it, whatever theme, padding or
\* settings changes arrive.
C18_WritesOnlyAfterOpen ==
  viewState # "opened" => (calls = << >> /\ attrs = NoAttrs)

\* the theme and margin/gap effects ran for a change while view.open was
\* pending
C18_EffectsDuringOpen ==
  /\ viewState = "opening" /\ pc = "open"
  /\ changes > 0
  /\ ran \cap {"theme", "margin"} # {}
  /\ calls = << >> /\ attrs = NoAttrs

\* C19: the flow attribute is only ever written as "scrolled", together
\* with margin and gap and while the scrolled setting is true; once
\* written it stays "scrolled"; a render in which nothing but settings
\* outside the margin/gap dependencies changed schedules no effect and
\* writes nothing.
C19_FlowOnlyScrolled ==
  [][ /\ attrs'.flow \in {"unset", "scrolled"}
      /\ attrs.flow = "scrolled" => attrs'.flow = "scrolled"
      /\ "flow" \in Written(calls')
         => (settings.scrolled /\ {"margin", "gap"} \subseteq Written(calls'))
      /\ ( /\ rSettings'.scrolled # rSettings.scrolled
           /\ MarginDeps(rPadding', rSettings') = MarginDeps(rPadding, rSettings)
           /\ rTheme' = rTheme )
         => (pend' = {} /\ calls' = << >> /\ attrs' = attrs) ]_vars

\* scrolled was turned off and rendered after the flow had been written:
\* nothing is pending and the attribute is still "scrolled"
C19_FlowKeptAfterScrolledOff ==
  /\ pc = "done" /\ attrs.flow = "scrolled"
  /\ ~settings.scrolled /\ ~rSettings.scrolled
  /\ pend = {} /\ calls = << >>

====
